---- MODULE Spec2Model ----
(***************************************************************************)
(* Model of the two example scripts of Difix3D:                            *)
(*   examples/regenerate_alignments.py    (discovery + regeneration loop)  *)
(*   examples/compute_dataset_alignment.py (alignment computation)         *)
(*                                                                         *)
(* Spec         : one run of regenerate_alignments.main                    *)
(* SpecDiscover : one call of find_alignments over a richer results tree   *)
(* SpecCompute  : one run of compute_dataset_alignment.main                *)
(***************************************************************************)
EXTENDS Integers, Sequences, FiniteSets, TLC

VARIABLES
    script_exists,      \* compute_script.exists()
    args,               \* parsed command line of regenerate_alignments.py
    tree,               \* results tree: kinds of the entries (never written)
    dataset,            \* dataset tree: which train/ and test/ directories exist
    art,                \* contents of <variant>/alignments/test_to_train.npz
    old,                \* contents of <variant>/alignments/test_to_train.npz.old
    art0, old0,         \* art and old as they were when the run started
    pc,                 \* position of regenerate_alignments.main
    alignments,         \* the list find_alignments returned (after --scenes)
    idx,                \* index of the record the for loop is at
    success_count, fail_count,
    exit_code,          \* process exit status, NoExit while running
    log,                \* how each regenerate_alignment call ended, in order
    cpc,                \* position of compute_dataset_alignment.main
    train_transform,    \* Parser(train_dir).transform, ParserFailed if it raised
    subset_transform,   \* Parser(subset_dir).transform, ParserFailed if it raised
    ret,                \* what compute_alignment returned, NoReturn before
    out_dir, out_file,  \* args.output.parent exists / what args.output holds
    out_dir0, out_file0,\* the same two when the script started
    cstatus             \* exit status of the script, NoExit while running

ovars == <<script_exists, args, tree, dataset, art, old, art0, old0, pc,
           alignments, idx, success_count, fail_count, exit_code, log>>
cvars == <<cpc, train_transform, subset_transform, ret, out_dir, out_file,
           out_dir0, out_file0, cstatus>>
vars == <<ovars, cvars>>

----------------------------------------------------------------------------
(* Bounds of the model *)

SceneNames    == {"s1", "s2"}
ModalityNames == {"iphone", "stereo"}
VariantNames  == {"v1"}
MaxModalities == 2      \* longest --modalities list

Pairs == SceneNames \X ModalityNames
Slots == SceneNames \X ModalityNames \X VariantNames

NoFile == <<>>
NoCfg  == <<>>
NoExit == 0 - 1

----------------------------------------------------------------------------
(* cfg.yml: a text is a sequence of lines, a line a sequence of symbols.   *)
(* "K" stands for the letters test_every, "x" for any other letter.        *)

IsSpace(c) == c \in {" ", "\n"}
IsDigit(c) == c \in {"0", "1", "2", "4"}
DigitVal(c) == CASE c = "0" -> 0 [] c = "1" -> 1 [] c = "2" -> 2 [] c = "4" -> 4

RECURSIVE LStrip(_)
LStrip(s) == IF s # <<>> /\ IsSpace(Head(s)) THEN LStrip(Tail(s)) ELSE s

RECURSIVE RStrip(_)
RStrip(s) ==
    IF s # <<>> /\ IsSpace(s[Len(s)]) THEN RStrip(SubSeq(s, 1, Len(s) - 1)) ELSE s

\* str.strip()
Strip(s) == RStrip(LStrip(s))

\* str.startswith("test_every:")
StartsWithKey(s) == Len(s) >= 2 /\ s[1] = "K" /\ s[2] = ":"

\* str.split(":"): the pieces between the colons
RECURSIVE SplitColon(_, _)
SplitColon(s, cur) ==
    IF s = <<>> THEN <<cur>>
    ELSE IF Head(s) = ":" THEN <<cur>> \o SplitColon(Tail(s), <<>>)
    ELSE SplitColon(Tail(s), Append(cur, Head(s)))

RECURSIVE DigitsValue(_, _)
DigitsValue(s, acc) ==
    IF s = <<>> THEN acc ELSE DigitsValue(Tail(s), 10 * acc + DigitVal(Head(s)))

AllDigits(s) == s # <<>> /\ \A i \in 1..Len(s) : IsDigit(s[i])

\* int(text): surrounding blanks, an optional sign, decimal digits;
\* anything else raises ValueError
ParseInt(text) ==
    LET s == Strip(text)
        neg == s # <<>> /\ Head(s) = "-"
        body == IF s # <<>> /\ Head(s) \in {"-", "+"} THEN Tail(s) ELSE s
    IN  IF AllDigits(body)
        THEN [ok |-> TRUE,
              val |-> IF neg THEN 0 - DigitsValue(body, 0) ELSE DigitsValue(body, 0)]
        ELSE [ok |-> FALSE, val |-> 0]

DefaultTestEvery == 8

\* the loop over the lines of cfg.yml
RECURSIVE ExtractTestEvery(_)
ExtractTestEvery(lines) ==
    IF lines = <<>> THEN DefaultTestEvery
    ELSE LET line == Head(lines) IN
         IF StartsWithKey(Strip(line))
         THEN LET pieces == SplitColon(line, <<>>)
                  r == IF Len(pieces) >= 2 THEN ParseInt(pieces[2])
                       ELSE [ok |-> FALSE, val |-> 0]
              IN  IF r.ok THEN r.val ELSE ExtractTestEvery(Tail(lines))
         ELSE ExtractTestEvery(Tail(lines))

CfgPlain     == << <<"K", ":", " ", "4", "\n">> >>
CfgNoKey     == << <<"x", ":", " ", "1", "\n">> >>
CfgRetry     == << <<"K", ":", " ", "x", "\n">>, <<" ", "K", ":", "1", "2", "\n">> >>
CfgEmpty     == << <<"K", ":", "\n">> >>
CfgTuple     == << <<"x", "\n">>, <<"K", ":", " ", "2", ":", "x", "\n">> >>
CfgNegative  == << <<"K", ":", " ", "-", "1", "\n">> >>
CfgOtherKey  == << <<"K", "x", ":", " ", "4", "\n">> >>
CfgTrailing  == << <<"K", ":", " ", "4", " ", "x", "\n">> >>
CfgTwice     == << <<"K", ":", "2", "\n">>, <<"K", ":", "4", "\n">> >>

CfgTextsMain == {CfgPlain, CfgNoKey}
CfgTextsAll  == {CfgPlain, CfgNoKey, CfgRetry, CfgEmpty, CfgTuple, CfgNegative,
                 CfgOtherKey, CfgTrailing, CfgTwice}

----------------------------------------------------------------------------
(* The results tree.  A variant entry is                                   *)
(*   kind "nomod" : the modality directory does not exist                  *)
(*   kind "none"  : the modality directory exists, the entry does not      *)
(*   kind "file"  : the entry is a plain file                              *)
(*   kind "dir"   : a directory, with or without cfg.yml                   *)

Entry(kind, cfg) == [kind |-> kind, cfg |-> cfg]

EntriesWith(texts) ==
    {Entry("nomod", NoCfg), Entry("none", NoCfg), Entry("file", NoCfg),
     Entry("dir", NoCfg)} \cup {Entry("dir", t) : t \in texts}

\* modality_dir.exists()
ModalityExists(t, scene, modality) ==
    \E v \in VariantNames : t.variants[<<scene, modality, v>>].kind # "nomod"

\* contents of an artifact as a previous run left it / as a backup left it
PrevArtifact(slot) == <<"prev", slot[1], slot[2], 0, 0>>
PrevBackup(slot)   == <<"older", slot[1], slot[2], 0, 0>>

\* what compute_dataset_alignment.py writes for --train-dir, --subset-dir,
\* --train-test-every, --eval-test-every (the parser is deterministic)
NewArtifact(scene, modality, test_every, eval_test_every) ==
    <<"regen", scene, modality, test_every, eval_test_every>>

\* all orders in which iterdir() may list the set S
Orders(S) ==
    {f \in [1..Cardinality(S) -> S] : \A i, j \in 1..Cardinality(S) : f[i] = f[j] => i = j}

RECURSIVE ScanVariants(_, _, _, _, _)
ScanVariants(t, a, scene, modality, vs) ==
    IF vs = <<>> THEN <<>>
    ELSE LET slot == <<scene, modality, Head(vs)>>
             e == t.variants[slot]
             rest == ScanVariants(t, a, scene, modality, Tail(vs))
         IN  IF e.kind # "dir" THEN rest                 \* not listed / not is_dir()
             ELSE IF a[slot] = NoFile THEN rest          \* not alignment_file.exists()
             ELSE IF e.cfg = NoCfg THEN rest             \* not cfg_file.exists()
             ELSE << [path |-> slot, scene |-> scene, modality |-> modality,
                      variant |-> Head(vs),
                      test_every |-> ExtractTestEvery(e.cfg)] >> \o rest

RECURSIVE ScanModalities(_, _, _, _, _)
ScanModalities(t, a, scene, mods, vorder) ==
    IF mods = <<>> THEN <<>>
    ELSE LET rest == ScanModalities(t, a, scene, Tail(mods), vorder) IN
         IF ~ModalityExists(t, scene, Head(mods)) THEN rest
         ELSE ScanVariants(t, a, scene, Head(mods), vorder) \o rest

RECURSIVE ScanScenes(_, _, _, _, _)
ScanScenes(t, a, sorder, mods, vorder) ==
    IF sorder = <<>> THEN <<>>
    ELSE LET rest == ScanScenes(t, a, Tail(sorder), mods, vorder) IN
         IF ~t.scene_is_dir[Head(sorder)] THEN rest
         ELSE ScanModalities(t, a, Head(sorder), mods, vorder) \o rest

\* find_alignments(results_dir, modalities): sorder and vorder are the
\* orders in which the two iterdir() calls list their entries
find_alignments(t, a, mods, sorder, vorder) == ScanScenes(t, a, sorder, mods, vorder)

\* main: the --scenes filter
RECURSIVE FilterScenes(_, _)
FilterScenes(als, scenes) ==
    IF als = <<>> THEN <<>>
    ELSE IF Head(als).scene \in scenes
         THEN <<Head(als)>> \o FilterScenes(Tail(als), scenes)
         ELSE FilterScenes(Tail(als), scenes)

ApplyScenesArg(als, scenes) == IF scenes # {} THEN FilterScenes(als, scenes) ELSE als

----------------------------------------------------------------------------
(* regenerate_alignment *)

TrainDirNotChecked(d, r) == FALSE

TrainDirMissing(d, r) == ~d[<<r.scene, r.modality>>].train
TestDirMissing(d, r)  == ~d[<<r.scene, r.modality>>].test

BackupOldNever(a, o, path, backup, dry_run) == o

BackupOldOnDryRun(a, o, path, backup, dry_run) ==
    IF backup /\ a[path] # NoFile THEN [o EXCEPT ![path] = a[path]] ELSE o

\* the backup block: shutil.copy2(alignment_path, backup_path)
BackupOld(a, o, path, backup, dry_run) ==
    IF backup /\ a[path] # NoFile /\ ~dry_run
    THEN [o EXCEPT ![path] = a[path]]
    ELSE o

\* how subprocess.run(cmd, check=True) can end:
\*   "ok"      exit status 0, the script wrote --output
\*   "nonzero" CalledProcessError: the script died before writing
\*   "raise"   any other exception (python3 cannot be started: OSError)
ProcOutcomes == {"ok", "nonzero", "raise"}

\* the artifact after subprocess.run
RunCompute(a, r, eval_test_every, proc) ==
    IF proc = "ok"
    THEN [a EXCEPT ![r.path] = NewArtifact(r.scene, r.modality, r.test_every, eval_test_every)]
    ELSE a

\* one call; ret is "true", "false" or "raised" (the exception leaves the call)
regenerate_alignment(r, a, o, d, ar, proc) ==
    IF TrainDirMissing(d, r) THEN [ret |-> "false", how |-> "notrain", art |-> a, old |-> o]
    ELSE IF TestDirMissing(d, r) THEN [ret |-> "false", how |-> "notest", art |-> a, old |-> o]
    ELSE LET o1 == BackupOld(a, o, r.path, ar.backup, ar.dry_run) IN
         IF ar.dry_run THEN [ret |-> "true", how |-> "dry", art |-> a, old |-> o1]
         ELSE LET a1 == RunCompute(a, r, ar.eval_test_every, proc) IN
              CASE proc = "ok"      -> [ret |-> "true", how |-> "ok", art |-> a1, old |-> o1]
                [] proc = "nonzero" -> [ret |-> "false", how |-> "nonzero", art |-> a1, old |-> o1]
                [] proc = "raise"   -> [ret |-> "raised", how |-> "raise", art |-> a1, old |-> o1]

ExitStatusAlwaysZero(fails) == 0

\* return 0 if fail_count == 0 else 1
ExitStatus(fails) == IF fails = 0 THEN 0 ELSE 1

----------------------------------------------------------------------------
(* compute_dataset_alignment.py.  A transform is a square matrix, a tuple  *)
(* of rows; entries are integers, and a quotient is kept exactly as a      *)
(* numerator matrix over one common denominator.                           *)

ParserFailed == <<>>
NoReturn     == <<>>

Dim(M) == Len(M)

Minor(M, i, j) ==
    [r \in 1..(Dim(M) - 1) |->
        [c \in 1..(Dim(M) - 1) |->
            M[IF r < i THEN r ELSE r + 1][IF c < j THEN c ELSE c + 1]]]

Sign(k) == IF k % 2 = 0 THEN 1 ELSE 0 - 1

RECURSIVE Det(_)
RECURSIVE DetRow(_, _)
\* the cofactors of the first row, columns j..Dim(M)
DetRow(M, j) ==
    IF j > Dim(M) THEN 0
    ELSE Sign(1 + j) * M[1][j] * Det(Minor(M, 1, j)) + DetRow(M, j + 1)

Det(M) == IF Dim(M) = 1 THEN M[1][1] ELSE DetRow(M, 1)

Adjugate(M) ==
    [i \in 1..Dim(M) |-> [j \in 1..Dim(M) |-> Sign(i + j) * Det(Minor(M, j, i))]]

RECURSIVE Dot(_, _, _, _, _)
Dot(A, B, i, j, k) ==
    IF k > Dim(A) THEN 0 ELSE A[i][k] * B[k][j] + Dot(A, B, i, j, k + 1)

\* A @ B
MatMul(A, B) == [i \in 1..Dim(A) |-> [j \in 1..Dim(A) |-> Dot(A, B, i, j, 1)]]

Scale(k, M) == [i \in 1..Dim(M) |-> [j \in 1..Dim(M) |-> k * M[i][j]]]

Identity(n) == [i \in 1..n |-> [j \in 1..n |-> IF i = j THEN 1 ELSE 0]]

\* np.linalg.inv raises LinAlgError("Singular matrix")
SingularNever(M) == FALSE

Singular(M) == Det(M) = 0

\* np.linalg.inv(M) for a regular M: Adjugate(M) / Det(M)
Inv(M) == [num |-> Adjugate(M), den |-> Det(M)]

AlignSwapped(B, S) == [num |-> MatMul(Inv(S).num, B), den |-> Inv(S).den]

\* train_parser.transform @ np.linalg.inv(subset_parser.transform)
Align(B, S) == [num |-> MatMul(B, Inv(S).num), den |-> Inv(S).den]

\* compute_alignment, given what the two Parser objects hold
compute_alignment(B, S) == [align |-> Align(B, S), base |-> B, support |-> S]

MaxScale == 2

RotI == << <<1, 0, 0>>, <<0, 1, 0>>, <<0, 0, 1>> >>
RotZ == << <<0, 0 - 1, 0>>, <<1, 0, 0>>, <<0, 0, 1>> >>
RotX == << <<1, 0, 0>>, <<0, 0, 0 - 1>>, <<0, 1, 0>> >>

\* the homogeneous matrix [ s*R  t ; 0 0 0 1 ]
Similarity(s, R, t) ==
    << <<s * R[1][1], s * R[1][2], s * R[1][3], t[1]>>,
       <<s * R[2][1], s * R[2][2], s * R[2][3], t[2]>>,
       <<s * R[3][1], s * R[3][2], s * R[3][3], t[3]>>,
       <<0, 0, 0, 1>> >>

Sheared    == << <<1, 2, 0, 1>>, <<0, 1, 3, 0>>, <<2, 0, 1, 0 - 1>>, <<0, 1, 0, 2>> >>
RankThree  == << <<1, 2, 0, 1>>, <<0, 1, 3, 0>>, <<1, 3, 3, 1>>, <<0, 0, 0, 1>> >>

\* scale 0 and RankThree are the singular ones
Transforms ==
    {Similarity(s, R, t) : s \in 0..MaxScale, R \in {RotI, RotZ, RotX},
                           t \in {<<0, 0, 0>>, <<1, 0 - 2, 3>>}}
        \cup {Sheared, RankThree}

----------------------------------------------------------------------------
(* regenerate_alignments.main *)

ModalityLists ==
    UNION {[1..n -> ModalityNames] : n \in 1..MaxModalities}

ArgSets ==
    [dry_run : BOOLEAN, backup : BOOLEAN, modalities : ModalityLists,
     scenes : {{}, {"s1"}}, eval_test_every : {1}]

\* a record for this variant can be discovered and is kept by --scenes
Read(t, ar, slot) ==
    /\ t.scene_is_dir[slot[1]]
    /\ t.variants[slot].kind = "dir" /\ t.variants[slot].cfg # NoCfg
    /\ \E i \in 1..Len(ar.modalities) : ar.modalities[i] = slot[2]
    /\ ar.scenes = {} \/ slot[1] \in ar.scenes

\* the artifacts and backups on disk when the run starts: a backup from an
\* earlier run lies beside the artifacts of scene s1
InitFiles(t, a) ==
    /\ art = a
    /\ old = [s \in Slots |->
                IF t.variants[s].kind = "dir" /\ s[1] = "s1" THEN PrevBackup(s) ELSE NoFile]
    /\ art0 = art
    /\ old0 = old

InitControl(start) ==
    /\ pc = start
    /\ alignments = <<>>
    /\ idx = 0
    /\ success_count = 0
    /\ fail_count = 0
    /\ exit_code = NoExit
    /\ log = <<>>

ComputeIdle ==
    /\ cpc = "idle"
    /\ train_transform = ParserFailed
    /\ subset_transform = ParserFailed
    /\ ret = NoReturn
    /\ out_dir = FALSE /\ out_file = "none"
    /\ out_dir0 = FALSE /\ out_file0 = "none"
    /\ cstatus = NoExit

AllPresent == [p \in Pairs |-> [train |-> TRUE, test |-> TRUE]]

EmptyTree ==
    [scene_is_dir |-> [s \in SceneNames |-> TRUE],
     variants |-> [s \in Slots |-> Entry("nomod", NoCfg)]]

Init ==
    /\ script_exists \in BOOLEAN
    /\ args \in ArgSets
    /\ tree \in [scene_is_dir : [SceneNames -> {TRUE}],
                 variants : [Slots -> {Entry("nomod", NoCfg)}
                                       \cup {Entry("dir", t) : t \in CfgTextsMain}]]
    \* without the script main returns before it reads anything
    /\ ~script_exists => tree = EmptyTree
    /\ InitFiles(tree, [s \in Slots |->
                          IF tree.variants[s].kind = "dir" THEN PrevArtifact(s) ELSE NoFile])
    /\ dataset \in [Pairs -> [train : BOOLEAN, test : BOOLEAN]]
    \* directories no record refers to are never looked at: taken as present
    /\ \A p \in Pairs :
          (~\E v \in VariantNames : Read(tree, args, <<p[1], p[2], v>>))
              => dataset[p] = [train |-> TRUE, test |-> TRUE]
    \* with train/ missing test/ is not looked at either
    /\ \A p \in Pairs : dataset[p].train \/ dataset[p].test
    /\ InitControl("start")
    /\ ComputeIdle

\* lines 182-185
CheckScript ==
    /\ pc = "start"
    /\ IF script_exists
       THEN pc' = "scan" /\ exit_code' = exit_code
       ELSE pc' = "exit" /\ exit_code' = 1
    /\ UNCHANGED <<script_exists, args, tree, dataset, art, old, art0, old0,
                   alignments, idx, success_count, fail_count, log,
                   cvars>>

\* lines 197-221
Scan ==
    /\ pc = "scan"
    /\ \E sorder \in Orders(SceneNames), vorder \in Orders(VariantNames) :
          alignments' = ApplyScenesArg(
              find_alignments(tree, art, args.modalities, sorder, vorder), args.scenes)
    /\ IF alignments' = <<>>
       THEN pc' = "exit" /\ exit_code' = 0 /\ idx' = idx
       ELSE pc' = "loop" /\ exit_code' = exit_code /\ idx' = 1
    /\ UNCHANGED <<script_exists, args, tree, dataset, art, old, art0, old0,
                   success_count, fail_count, log,
                   cvars>>

\* lines 223-246: one pass of the for loop
Regenerate ==
    /\ pc = "loop"
    /\ \E proc \in ProcOutcomes :
          LET res == regenerate_alignment(alignments[idx], art, old, dataset, args, proc) IN
          /\ art' = res.art
          /\ old' = res.old
          /\ log' = Append(log, res.how)
          /\ CASE res.ret = "true" ->
                    /\ success_count' = success_count + 1
                    /\ fail_count' = fail_count
                    /\ idx' = idx + 1
                    /\ pc' = IF idx + 1 > Len(alignments) THEN "summary" ELSE "loop"
                    /\ exit_code' = exit_code
               [] res.ret = "false" ->
                    /\ success_count' = success_count
                    /\ fail_count' = fail_count + 1
                    /\ idx' = idx + 1
                    /\ pc' = IF idx + 1 > Len(alignments) THEN "summary" ELSE "loop"
                    /\ exit_code' = exit_code
               [] res.ret = "raised" ->      \* uncaught: traceback, status 1
                    /\ UNCHANGED <<success_count, fail_count, idx>>
                    /\ pc' = "exit"
                    /\ exit_code' = 1
    /\ UNCHANGED <<script_exists, args, tree, dataset, art0, old0, alignments,
                   cvars>>

\* lines 248-263
Summary ==
    /\ pc = "summary"
    /\ pc' = "exit"
    /\ exit_code' = ExitStatus(fail_count)
    /\ UNCHANGED <<script_exists, args, tree, dataset, art, old, art0, old0,
                   alignments, idx, success_count, fail_count, log,
                   cvars>>

Next == CheckScript \/ Scan \/ Regenerate \/ Summary

Spec == Init /\ [][Next]_vars

----------------------------------------------------------------------------
(* find_alignments alone, over every kind of entry and every cfg.yml text  *)

InitDiscover ==
    /\ script_exists = TRUE
    /\ args \in [dry_run : {FALSE}, backup : {TRUE}, modalities : ModalityLists,
                 scenes : {{}}, eval_test_every : {1}]
    /\ tree \in [scene_is_dir : [SceneNames -> BOOLEAN],
                 variants : [Slots -> EntriesWith(CfgTextsAll)]]
    \* scene s2 holds plain variants only
    /\ \A s \in Slots : s[1] = "s2" =>
          tree.variants[s] \in {Entry("nomod", NoCfg), Entry("dir", CfgPlain)}
    /\ \E a \in [Slots -> BOOLEAN] :
          /\ \A s \in Slots : a[s] => tree.variants[s].kind = "dir"
          /\ \A s \in Slots : s[1] = "s2" /\ tree.variants[s].kind = "dir" => a[s]
          /\ InitFiles(tree, [s \in Slots |-> IF a[s] THEN PrevArtifact(s) ELSE NoFile])
    /\ dataset = AllPresent
    /\ InitControl("scan")
    /\ ComputeIdle

\* lines 16-67
Discover ==
    /\ pc = "scan"
    /\ \E sorder \in Orders(SceneNames), vorder \in Orders(VariantNames) :
          alignments' = find_alignments(tree, art, args.modalities, sorder, vorder)
    /\ pc' = "found"
    /\ UNCHANGED <<script_exists, args, tree, dataset, art, old, art0, old0,
                   idx, success_count, fail_count, exit_code, log, cvars>>

NextDiscover == Discover

SpecDiscover == InitDiscover /\ [][NextDiscover]_vars

----------------------------------------------------------------------------
(* compute_dataset_alignment.main *)

InitCompute ==
    /\ script_exists = TRUE
    /\ args = [dry_run |-> FALSE, backup |-> TRUE, modalities |-> <<"iphone">>,
               scenes |-> {}, eval_test_every |-> 1]
    /\ tree = EmptyTree
    /\ InitFiles(tree, [s \in Slots |-> NoFile])
    /\ dataset = AllPresent
    /\ InitControl("idle")
    /\ cpc = "start"
    /\ train_transform \in Transforms \cup {ParserFailed}
    /\ subset_transform \in Transforms \cup {ParserFailed}
    /\ ret = NoReturn
    /\ out_dir \in BOOLEAN
    /\ out_file \in {"none", "prior"}
    /\ out_file = "prior" => out_dir
    /\ out_dir0 = out_dir
    /\ out_file0 = out_file
    /\ cstatus = NoExit

\* lines 53-58 (and 19-41): an exception ends the script with a traceback
ComputeAlignment ==
    /\ cpc = "start"
    /\ IF train_transform = ParserFailed \/ subset_transform = ParserFailed
       THEN cpc' = "exited" /\ cstatus' = 1 /\ ret' = ret
       ELSE IF Singular(subset_transform)
       THEN cpc' = "exited" /\ cstatus' = 1 /\ ret' = ret
       ELSE /\ cpc' = "save"
            /\ cstatus' = cstatus
            /\ ret' = compute_alignment(train_transform, subset_transform)
    /\ UNCHANGED <<ovars, train_transform, subset_transform, out_dir, out_file,
                   out_dir0, out_file0>>

\* lines 60-67: mkdir(parents=True, exist_ok=True), np.savez
SaveArtifact ==
    /\ cpc = "save"
    /\ out_dir' = TRUE
    /\ out_file' = "new"
    /\ cpc' = "exited"
    /\ cstatus' = 0
    /\ UNCHANGED <<ovars, train_transform, subset_transform, ret, out_dir0, out_file0>>

NextCompute == ComputeAlignment \/ SaveArtifact

SpecCompute == InitCompute /\ [][NextCompute]_vars

----------------------------------------------------------------------------
(* Properties *)

Processed == 1..Len(log)
Aborted   == log # <<>> /\ log[Len(log)] = "raise"
RealRun   == ~args.dry_run /\ args.backup
FirstUse(i) == \A j \in 1..(i - 1) : alignments[j].path # alignments[i].path

\* C1 as claimed: after a non-dry run with backup (one that reached its
\* summary), every processed record whose artifact existed before the run
\* has a .old file equal to the artifact's pre-run contents and an artifact
\* holding the new result.
C1_BackupSafetyAllProcessed ==
    (pc = "exit" /\ RealRun /\ ~Aborted) =>
        \A i \in Processed :
            LET r == alignments[i] IN
            art0[r.path] # NoFile =>
                /\ old[r.path] = art0[r.path]
                /\ art[r.path] = NewArtifact(r.scene, r.modality, r.test_every,
                                             args.eval_test_every)

\* C1 amended: in a non-dry run with backup, when regenerate_alignment
\* succeeds for a record, on return the .old file equals what the artifact
\* held when the call began (the pre-run contents on the first call for
\* that path) and the artifact holds the newly computed result.
C1_BackupSafetyOnSuccess ==
    [][(pc = "loop" /\ RealRun /\ success_count' = success_count + 1) =>
          LET r == alignments[idx] IN
          /\ art[r.path] # NoFile
          /\ old'[r.path] = art[r.path]
          /\ FirstUse(idx) => old'[r.path] = art0[r.path]
          /\ art'[r.path] = NewArtifact(r.scene, r.modality, r.test_every,
                                        args.eval_test_every)]_vars

C1_Witness ==
    /\ RealRun /\ pc = "exit" /\ ~Aborted
    /\ \E i \in Processed :
          /\ log[i] = "ok"
          /\ old0[alignments[i].path] # NoFile
          /\ old[alignments[i].path] = art0[alignments[i].path]
          /\ art[alignments[i].path] # art0[alignments[i].path]
    /\ \E i \in Processed : log[i] = "nonzero"

\* C2: on a dry run no artifact and no .old file is created or changed,
\* at any point of discovery and of the loop, whatever is reported.
C2_DryRunNoOp == args.dry_run => (art = art0 /\ old = old0)

C2_Witness ==
    /\ args.dry_run /\ args.backup /\ pc = "exit"
    /\ success_count > 0 /\ fail_count > 0
    /\ \E i \in Processed : log[i] = "dry" /\ old0[alignments[i].path] # NoFile
    /\ \E i \in Processed : log[i] = "dry" /\ old0[alignments[i].path] = NoFile

OnlySecondTrainAbsent ==
    /\ Len(alignments) = 3
    /\ \A i \in 1..3 :
          /\ dataset[<<alignments[i].scene, alignments[i].modality>>].train = (i # 2)
          /\ dataset[<<alignments[i].scene, alignments[i].modality>>].test

\* C3 as claimed (its closing case): a batch of 3 records where only record
\* 2's train directory is absent ends with 2 successes and 1 failure.
C3_ThreeRecordBatch ==
    (pc = "summary" /\ OnlySecondTrainAbsent) => (success_count = 2 /\ fail_count = 1)

\* C3 amended: the pass of the loop over a record whose train or test
\* directory is missing counts exactly one failure, writes nothing and
\* moves on to the next record (to the summary after the last one); and a
\* batch of 3 records where only record 2's train directory is absent and
\* records 1 and 3 are regenerated successfully ends with 2 successes and
\* 1 failure.
C3_MissingDirIsolated ==
    /\ [][(pc = "loop" /\ (~dataset[<<alignments[idx].scene, alignments[idx].modality>>].train
                           \/ ~dataset[<<alignments[idx].scene, alignments[idx].modality>>].test)) =>
             /\ fail_count' = fail_count + 1
             /\ success_count' = success_count
             /\ art' = art /\ old' = old
             /\ idx' = idx + 1
             /\ pc' = IF idx < Len(alignments) THEN "loop" ELSE "summary"]_vars
    /\ []((pc = "summary" /\ OnlySecondTrainAbsent
              /\ log[1] \in {"ok", "dry"} /\ log[3] \in {"ok", "dry"})
             => (success_count = 2 /\ fail_count = 1 /\ log[2] = "notrain"))

C3_Witness ==
    /\ pc = "exit" /\ OnlySecondTrainAbsent /\ ~args.dry_run
    /\ log = <<"ok", "notrain", "ok">>
    /\ success_count = 2 /\ fail_count = 1

\* C4: whenever the recomputation of a record fails, by a non-zero status
\* or by a thrown error, the failure is counted for that record and the
\* loop goes on to the next record or to the summary.
C4_FailuresAbsorbed ==
    [][(pc = "loop" /\ log' # log /\ log'[Len(log')] \in {"nonzero", "raise"}) =>
          /\ fail_count' = fail_count + 1
          /\ success_count' = success_count
          /\ idx' = idx + 1
          /\ pc' \in {"loop", "summary"}]_vars

Requested(modality) == \E i \in 1..Len(args.modalities) : args.modalities[i] = modality

Qualifies(slot) ==
    /\ tree.scene_is_dir[slot[1]]
    /\ Requested(slot[2])
    /\ tree.variants[slot].kind = "dir"
    /\ art[slot] # NoFile
    /\ tree.variants[slot].cfg # NoCfg

\* the triples <<a, b, v>> such that the text after "test_every:" up to the
\* next colon is blanks, then an integer of value v at a..b, then blanks
IntegerFields(s) ==
    LET colons == {k \in 3..Len(s) : s[k] = ":"}
        e == IF colons = {} THEN Len(s)
             ELSE (CHOOSE k \in colons : \A m \in colons : k <= m) - 1
    IN  {<<a, b, v>> \in (3..e) \X (3..e) \X (-44..44) :
            /\ a <= b
            /\ \A k \in 3..e : (k < a \/ k > b) => IsSpace(s[k])
            /\ LET d == IF s[a] \in {"-", "+"} THEN a + 1 ELSE a IN
               /\ d <= b
               /\ \A k \in d..b : IsDigit(s[k])
               /\ LET sum[k \in (d - 1)..b] ==
                          IF k < d THEN 0 ELSE sum[k - 1] * 10 + DigitVal(s[k])
                  IN  v = IF s[a] = "-" THEN 0 - sum[b] ELSE sum[b]}

WellFormedLine(line) ==
    LET s == Strip(line) IN
    Len(s) >= 3 /\ s[1] = "K" /\ s[2] = ":" /\ IntegerFields(s) # {}

LineValue(line) == (CHOOSE f \in IntegerFields(Strip(line)) : TRUE)[3]

\* the cadence a sidecar stands for: that of its first well-formed
\* test_every line, the default without one
Cadence(lines) ==
    LET good == {k \in 1..Len(lines) : WellFormedLine(lines[k])} IN
    IF good = {} THEN DefaultTestEvery
    ELSE LineValue(lines[CHOOSE k \in good : \A m \in good : k <= m])

\* C6: discovery returns exactly one record for each variant directory
\* (under a scene directory and a requested modality) holding both the
\* artifact and cfg.yml, none for any other, and each record's cadence is
\* the integer of the sidecar's test_every line, or the default 8.
C6_DiscoveryComplete ==
    pc = "found" =>
        /\ \A slot \in Slots :
              Cardinality({i \in 1..Len(alignments) : alignments[i].path = slot})
                  = IF Qualifies(slot) THEN 1 ELSE 0
        /\ \A i \in 1..Len(alignments) :
              alignments[i].test_every = Cadence(tree.variants[alignments[i].path].cfg)

\* C7: no (scene, modality, variant) appears twice in what one discovery
\* run returns.
C7_DiscoveryUnique ==
    pc = "found" =>
        \A i, j \in 1..Len(alignments) :
            (/\ alignments[i].scene = alignments[j].scene
             /\ alignments[i].modality = alignments[j].modality
             /\ alignments[i].variant = alignments[j].variant) => i = j

Started == train_transform # ParserFailed /\ subset_transform # ParserFailed

C9_Composition ==
    ret # NoReturn =>
        /\ ret.base = train_transform /\ ret.support = subset_transform
        /\ ret.align.den # 0
        /\ MatMul(ret.align.num, subset_transform) = Scale(ret.align.den, train_transform)
        /\ train_transform = subset_transform =>
              ret.align.num = Scale(ret.align.den, Identity(Dim(train_transform)))

C9_Witness ==
    /\ ret # NoReturn /\ cpc = "exited" /\ cstatus = 0
    /\ train_transform = Sheared
    /\ subset_transform = Similarity(2, RotZ, <<1, 0 - 2, 3>>)

\* C10: in a non-dry run with backup, at every point of the run the
\* pre-run contents of every artifact are still at the artifact path or at
\* its .old sibling.
C10_PreRunContentsKept ==
    RealRun =>
        \A s \in Slots :
            art0[s] # NoFile => (art[s] = art0[s] \/ old[s] = art0[s])

====
